---- MODULE Spec2Model ----
(***************************************************************************)
(* A model of the parts-catalog repository:                                *)
(*   - src/src/lib/supabase.ts, the module initializer that resolves the   *)
(*     endpoint URL and the anonymous key and builds the shared client;    *)
(*   - src/supabase/migrations/20251107154643_create_initial_schema.sql,   *)
(*     the four tables, their constraints and their row-level-security     *)
(*     policies, with PostgreSQL's semantics for the statements a caller   *)
(*     sends through the client.                                           *)
(* The two parts share no state.  SpecBoot runs the initializer from every *)
(* configuration; SpecUsers, SpecCart and SpecPolicies run statements      *)
(* against the migrated schema, each over the tables its properties need.  *)
(***************************************************************************)
EXTENDS Integers, Sequences, FiniteSets, TLC

VARIABLES
  \* ---- supabase.ts ----
  VITE_SUPABASE_URL,       \* import.meta.env.VITE_SUPABASE_URL
  VITE_SUPABASE_ANON_KEY,  \* import.meta.env.VITE_SUPABASE_ANON_KEY
  SUPABASE_URL,            \* the constant imported from ./supabase-config
  SUPABASE_ANON_KEY,       \* the constant imported from ./supabase-config
  supabaseUrl,             \* const supabaseUrl
  supabaseAnonKey,         \* const supabaseAnonKey
  supabase,                \* the exported handle, NoHandle until created
  consoleErrors,           \* what console.error has been given, in order
  thrown,                  \* the message of the Error thrown, NotThrown if none
  createClientCalls,       \* how many times createClient was called
  pc,                      \* the initializer's position (a source line)
  \* ---- the migrated database ----
  catalog_users,           \* set of rows [id, email, status]
  catalog_parts,           \* set of rows [id, price]
  cart,                    \* set of rows [id, user_id, part_id, quantity]
  verification_codes,      \* set of rows [id, used]
  last                     \* the last statement and what the server answered

bootVars == <<VITE_SUPABASE_URL, VITE_SUPABASE_ANON_KEY, SUPABASE_URL,
              SUPABASE_ANON_KEY, supabaseUrl, supabaseAnonKey, supabase,
              consoleErrors, thrown, createClientCalls, pc>>
dbVars == <<catalog_users, catalog_parts, cart, verification_codes, last>>
vars == <<bootVars, dbVars>>

(***************************************************************************)
(* supabase.ts                                                             *)
(***************************************************************************)

\* JavaScript's undefined: an environment variable that is not set, a
\* constant the configuration module does not define.
Undefined == "<undefined>"

\* The values an endpoint URL can take: unset, empty, or some URL.
UrlValues == {Undefined, "", "https://a.supabase.co", "https://b.supabase.co"}

\* The values a key can take: unset, empty, or some key.
KeyValues == {Undefined, "", "anon-key-a", "anon-key-b"}

NoHandle == [kind |-> "none"]
NotThrown == "<nothing thrown>"

\* The message of the Error of line 12.
MissingEnvMessage ==
  "Missing Supabase environment variables. Please restart the dev server."

\* JavaScript truthiness of a string-or-undefined value: !v is TRUE for
\* undefined and for the empty string.
Truthy(v) == v # Undefined /\ v # ""

\* The mutant of JsOr: ?? in place of ||, which lets an empty string through.
JsOrNullish(a, b) == IF a # Undefined THEN a ELSE b

\* a || b
JsOr(a, b) == IF Truthy(a) THEN a ELSE b

\* The mutant of MissingConfig: && in place of ||.
MissingConfigBoth(url, key) == (~Truthy(url)) /\ (~Truthy(key))

\* Line 7: !supabaseUrl || !supabaseAnonKey
MissingConfig(url, key) == (~Truthy(url)) \/ (~Truthy(key))

\* The mutant of LogEntry: the key itself is logged.
LogEntryLeaking(url, key) ==
  [label |-> "Environment variables:",
   VITE_SUPABASE_URL |-> url,
   VITE_SUPABASE_ANON_KEY |-> key]

\* Lines 8-11: what console.error is given.
LogEntry(url, key) ==
  [label |-> "Environment variables:",
   VITE_SUPABASE_URL |-> url,
   VITE_SUPABASE_ANON_KEY |-> IF Truthy(key) THEN "exists" ELSE "missing"]

\* The mutant of AuthOptions: the library's defaults, all three enabled.
AuthOptionsDefault ==
  [autoRefreshToken |-> TRUE, persistSession |-> TRUE, detectSessionInUrl |-> TRUE]

\* Lines 16-20: the auth options given to createClient.
AuthOptions ==
  [autoRefreshToken |-> FALSE, persistSession |-> FALSE, detectSessionInUrl |-> FALSE]

\* Lines 15-21: the handle createClient returns for its arguments.
createClient(url, key, options) ==
  [kind |-> "client", url |-> url, key |-> key, auth |-> options.auth]

\* The state before the module body runs, for one configuration.
BootStart(envUrl, envKey, cfgUrl, cfgKey) ==
  /\ VITE_SUPABASE_URL = envUrl
  /\ VITE_SUPABASE_ANON_KEY = envKey
  /\ SUPABASE_URL = cfgUrl
  /\ SUPABASE_ANON_KEY = cfgKey
  /\ supabaseUrl = Undefined
  /\ supabaseAnonKey = Undefined
  /\ supabase = NoHandle
  /\ consoleErrors = <<>>
  /\ thrown = NotThrown
  /\ createClientCalls = 0
  /\ pc = "L4"

\* Line 4.
ResolveUrl ==
  /\ pc = "L4"
  /\ supabaseUrl' = JsOr(VITE_SUPABASE_URL, SUPABASE_URL)
  /\ pc' = "L5"
  /\ UNCHANGED <<VITE_SUPABASE_URL, VITE_SUPABASE_ANON_KEY, SUPABASE_URL,
                 SUPABASE_ANON_KEY, supabaseAnonKey, supabase, consoleErrors,
                 thrown, createClientCalls>>
  /\ UNCHANGED dbVars

\* Line 5.
ResolveAnonKey ==
  /\ pc = "L5"
  /\ supabaseAnonKey' = JsOr(VITE_SUPABASE_ANON_KEY, SUPABASE_ANON_KEY)
  /\ pc' = "L7"
  /\ UNCHANGED <<VITE_SUPABASE_URL, VITE_SUPABASE_ANON_KEY, SUPABASE_URL,
                 SUPABASE_ANON_KEY, supabaseUrl, supabase, consoleErrors,
                 thrown, createClientCalls>>
  /\ UNCHANGED dbVars

\* Line 7: the guard, to the log of line 8 or past the block to line 15.
Guard ==
  /\ pc = "L7"
  /\ pc' = IF MissingConfig(supabaseUrl, supabaseAnonKey) THEN "L8" ELSE "L15"
  /\ UNCHANGED <<VITE_SUPABASE_URL, VITE_SUPABASE_ANON_KEY, SUPABASE_URL,
                 SUPABASE_ANON_KEY, supabaseUrl, supabaseAnonKey, supabase,
                 consoleErrors, thrown, createClientCalls>>
  /\ UNCHANGED dbVars

\* Lines 8-11: console.error.
LogMissing ==
  /\ pc = "L8"
  /\ consoleErrors' = Append(consoleErrors, LogEntry(supabaseUrl, supabaseAnonKey))
  /\ pc' = "L12"
  /\ UNCHANGED <<VITE_SUPABASE_URL, VITE_SUPABASE_ANON_KEY, SUPABASE_URL,
                 SUPABASE_ANON_KEY, supabaseUrl, supabaseAnonKey, supabase,
                 thrown, createClientCalls>>
  /\ UNCHANGED dbVars

\* Line 12: the throw ends the module's evaluation; nothing is exported.
ThrowMissing ==
  /\ pc = "L12"
  /\ thrown' = MissingEnvMessage
  /\ pc' = "failed"
  /\ UNCHANGED <<VITE_SUPABASE_URL, VITE_SUPABASE_ANON_KEY, SUPABASE_URL,
                 SUPABASE_ANON_KEY, supabaseUrl, supabaseAnonKey, supabase,
                 consoleErrors, createClientCalls>>
  /\ UNCHANGED dbVars

\* Lines 15-21: export const supabase = createClient(...).
CreateClient ==
  /\ pc = "L15"
  /\ supabase' = createClient(supabaseUrl, supabaseAnonKey, [auth |-> AuthOptions])
  /\ createClientCalls' = createClientCalls + 1
  /\ pc' = "done"
  /\ UNCHANGED <<VITE_SUPABASE_URL, VITE_SUPABASE_ANON_KEY, SUPABASE_URL,
                 SUPABASE_ANON_KEY, supabaseUrl, supabaseAnonKey,
                 consoleErrors, thrown>>
  /\ UNCHANGED dbVars

(***************************************************************************)
(* 20251107154643_create_initial_schema.sql                                *)
(*                                                                         *)
(* A column value is NULL or a one-element tuple holding the value, so a   *)
(* nullable column and a comparison with NULL are what they are in SQL.    *)
(* Columns no constraint, default or policy of the migration reads         *)
(* (password_hash, name, timestamps, ...) are left out of the rows.        *)
(***************************************************************************)

NULL == <<>>
IsNull(v) == v = NULL

\* The largest quantity a statement supplies; the smallest is -1.
MaxQuantity == 2

UserIds == {"u1", "u2"}
PartIds == {"p1"}
CartIds == {"c1", "c2"}
CodeIds == {"v1"}

EmailInputs == {NULL, <<"a@example.com">>, <<"b@example.com">>}
StatusInputs == {NULL, <<"pending">>, <<"approved">>, <<"rejected">>, <<"banned">>}
PriceInputs == {NULL, <<5>>}
UserRefInputs == {NULL} \cup {<<u>> : u \in UserIds}
PartRefInputs == {NULL} \cup {<<p>> : p \in PartIds}
QuantityInputs == {NULL} \cup {<<q>> : q \in (-1)..MaxQuantity}
UsedInputs == {NULL, <<FALSE>>, <<TRUE>>}

\* The rows a statement can supply for each table.
UserRows == [id : UserIds, email : EmailInputs, status : StatusInputs]
PartRows == [id : PartIds, price : PriceInputs]
CartRows == [id : CartIds, user_id : UserRefInputs, part_id : PartRefInputs,
             quantity : QuantityInputs]
CodeRows == [id : CodeIds, used : UsedInputs]

\* The roles a statement runs as: the two the policies name, and the tables'
\* owner, which runs the migration.
Roles == {"anon", "authenticated", "owner"}

\* Lines 65, 90, 101: DEFAULT 'pending', DEFAULT 1, DEFAULT false.
StatusDefault == <<"pending">>
QuantityDefault == <<1>>
UsedDefault == <<FALSE>>

\* The value an INSERT stores in a column with a default: the default when
\* the statement leaves the column out, else what it gives (NULL included).
ColumnValue(given, v, default) == IF given THEN v ELSE default

\* ---- constraints --------------------------------------------------------

\* The mutant of StatusCheck: a CHECK passes when its expression is not
\* FALSE, and here any text would pass.
StatusCheckAnyText(status) == TRUE

\* Line 65: CHECK (status IN ('pending', 'approved', 'rejected')).  A CHECK
\* passes when its expression is TRUE or NULL.
StatusCheck(status) ==
  IsNull(status) \/ status[1] \in {"pending", "approved", "rejected"}

\* The mutant of QuantityCheck: >= in place of >.
QuantityCheckNonNegative(quantity) == IsNull(quantity) \/ quantity[1] >= 0

\* Line 90: CHECK (quantity > 0), TRUE or NULL passes.
QuantityCheck(quantity) == IsNull(quantity) \/ quantity[1] > 0

\* Lines 59-65: email, status NOT NULL (id is the primary key).
UserNotNull(row) == ~IsNull(row.email) /\ ~IsNull(row.status)

\* Line 78: price NOT NULL.
PartNotNull(row) == ~IsNull(row.price)

\* The mutant of EmailUnique: the column without UNIQUE.
EmailNotUnique(row, others) == TRUE

\* Line 59: email UNIQUE, against the table's other rows.
EmailUnique(row, others) == \A o \in others : o.email # row.email

\* Lines 58, 73, 87, 97: PRIMARY KEY, against the table's other rows.
PrimaryKeyFree(row, others) == \A o \in others : o.id # row.id

\* The mutant of CartPairUnique: no UNIQUE constraint on the pair.
CartPairNotUnique(row, others) == TRUE

\* Line 92: UNIQUE(user_id, part_id).  Two rows conflict when every column
\* of the pair is equal and not NULL: NULLs are distinct from each other.
CartPairUnique(row, others) ==
  \A o \in others :
    ~(/\ ~IsNull(row.user_id) /\ ~IsNull(row.part_id)
      /\ o.user_id = row.user_id /\ o.part_id = row.part_id)

\* Lines 88, 89: REFERENCES t(id).  A NULL reference refers to nothing.
ReferenceHolds(ref, table) == IsNull(ref) \/ \E r \in table : r.id = ref[1]

\* Lines 88, 89: no ON UPDATE clause, so NO ACTION: a row's id cannot change
\* while the given rows still refer to it.
NoReferrers(id, newId, refs) == newId = id \/ <<id>> \notin refs

\* The mutant of CascadeDelete: no ON DELETE CASCADE, the rows are kept.
CascadeKeep(rows, column, id) == rows

\* Lines 88, 89: ON DELETE CASCADE, the cart rows left when the row `id` of
\* the table `column` refers to is deleted.
CascadeDelete(rows, column, id) == {c \in rows : c[column] # <<id>>}

\* ---- row-level security -------------------------------------------------

Tables == {"catalog_users", "catalog_parts", "cart", "verification_codes"}
Commands == {"SELECT", "INSERT", "UPDATE", "DELETE"}

\* Lines 106-109: ENABLE ROW LEVEL SECURITY, on all four tables.
RlsEnabled == {"catalog_users", "catalog_parts", "cart", "verification_codes"}

Callers == {"anon", "authenticated"}

Policy(name, table, cmd, using, check) ==
  [name |-> name, table |-> table, cmd |-> cmd, roles |-> Callers,
   using |-> using, check |-> check]

\* The mutant of Policies: a DELETE policy on catalog_users as well.
PoliciesWithUserDelete ==
  { Policy("Allow anonymous registration", "catalog_users", "INSERT", TRUE, TRUE),
    Policy("Users can read own data", "catalog_users", "SELECT", TRUE, TRUE),
    Policy("Users can update own data", "catalog_users", "UPDATE", TRUE, TRUE),
    Policy("Users can delete own data", "catalog_users", "DELETE", TRUE, TRUE),
    Policy("Anyone can read parts", "catalog_parts", "SELECT", TRUE, TRUE),
    Policy("Anyone can insert parts", "catalog_parts", "INSERT", TRUE, TRUE),
    Policy("Anyone can update parts", "catalog_parts", "UPDATE", TRUE, TRUE),
    Policy("Anyone can delete parts", "catalog_parts", "DELETE", TRUE, TRUE),
    Policy("Users can manage own cart", "cart", "ALL", TRUE, TRUE),
    Policy("Anyone can create codes", "verification_codes", "INSERT", TRUE, TRUE),
    Policy("Anyone can read codes", "verification_codes", "SELECT", TRUE, TRUE),
    Policy("Anyone can update codes", "verification_codes", "UPDATE", TRUE, TRUE) }

\* Lines 112-183: the CREATE POLICY statements, all TO anon, authenticated
\* and all with USING (true) / WITH CHECK (true).
Policies ==
  { Policy("Allow anonymous registration", "catalog_users", "INSERT", TRUE, TRUE),
    Policy("Users can read own data", "catalog_users", "SELECT", TRUE, TRUE),
    Policy("Users can update own data", "catalog_users", "UPDATE", TRUE, TRUE),
    Policy("Anyone can read parts", "catalog_parts", "SELECT", TRUE, TRUE),
    Policy("Anyone can insert parts", "catalog_parts", "INSERT", TRUE, TRUE),
    Policy("Anyone can update parts", "catalog_parts", "UPDATE", TRUE, TRUE),
    Policy("Anyone can delete parts", "catalog_parts", "DELETE", TRUE, TRUE),
    Policy("Users can manage own cart", "cart", "ALL", TRUE, TRUE),
    Policy("Anyone can create codes", "verification_codes", "INSERT", TRUE, TRUE),
    Policy("Anyone can read codes", "verification_codes", "SELECT", TRUE, TRUE),
    Policy("Anyone can update codes", "verification_codes", "UPDATE", TRUE, TRUE) }

\* The policies that apply to a role's command on a table.
Applicable(role, table, cmd) ==
  {p \in Policies : p.table = table /\ p.cmd \in {cmd, "ALL"} /\ role \in p.roles}

\* Lines 106-109: row security is enabled, not forced, so it does not bind
\* the tables' owner; any other role is bound by it.
Exempt(role, table) == role = "owner" \/ table \notin RlsEnabled

\* Whether the role's command sees (SELECT), or may change (UPDATE, DELETE),
\* the existing rows of the table: some applicable policy's USING holds; with
\* no applicable policy the default is to deny.  Every USING of the migration
\* is the constant true, so the answer is the same for every row.
Permitted(role, table, cmd) ==
  Exempt(role, table) \/ \E p \in Applicable(role, table, cmd) : p.using

\* Whether a row the role's command writes (INSERT, UPDATE) is accepted: some
\* applicable policy's WITH CHECK holds.
CheckPermitted(role, table, cmd) ==
  Exempt(role, table) \/ \E p \in Applicable(role, table, cmd) : p.check

\* ---- statements --------------------------------------------------------
\* A statement names one row by its id (INSERT ... VALUES (row), and
\* SELECT / UPDATE / DELETE ... WHERE id = id), as the client's row API sends
\* them.  The server's answer is kept in `last`: the error, if any, and the
\* number of rows returned or changed; with it, whether a row of that id was
\* in the table, whether the INSERT left the defaulted column out, and how
\* many cart rows the DELETE's cascade removed.

Answer(role, cmd, table, id, found, outcome, rows, defaulted, cascaded) ==
  [role |-> role, cmd |-> cmd, table |-> table, id |-> id, found |-> found,
   outcome |-> outcome, rows |-> rows, defaulted |-> defaulted,
   cascaded |-> cascaded]

\* The answer to a statement that raised `outcome` or, with "ok", took effect
\* on the row it names.
Wrote(role, cmd, table, id, found, outcome, defaulted) ==
  Answer(role, cmd, table, id, found, outcome,
         IF outcome = "ok" THEN 1 ELSE 0, defaulted, 0)

\* The answer to a DELETE on a table cart refers to.
Deleted(role, table, id, found, outcome, cartBefore, cartAfter) ==
  Answer(role, "DELETE", table, id, found, outcome,
         IF outcome = "ok" THEN 1 ELSE 0, FALSE,
         Cardinality(cartBefore) - Cardinality(cartAfter))

\* The rows WHERE id = id selects for the role's command: none when row
\* security hides the table's rows from the command (no error is raised), or
\* from the SELECT the WHERE clause needs.
Target(role, table, cmd, rows, id) ==
  IF Permitted(role, table, cmd) /\ Permitted(role, table, "SELECT")
  THEN {r \in rows : r.id = id}
  ELSE {}

RowsOf(table) ==
  CASE table = "catalog_users" -> catalog_users
    [] table = "catalog_parts" -> catalog_parts
    [] table = "cart" -> cart
    [] table = "verification_codes" -> verification_codes

Exists(rows, id) == \E r \in rows : r.id = id

\* The state after the migration has run: four empty tables.
DbStart ==
  /\ catalog_users = {}
  /\ catalog_parts = {}
  /\ cart = {}
  /\ verification_codes = {}
  /\ last = Answer("owner", "MIGRATE", "", "", FALSE, "ok", 0, FALSE, 0)

\* SELECT * FROM table WHERE id = id.
SelectRow(role, table, id) ==
  /\ last' = Answer(role, "SELECT", table, id, Exists(RowsOf(table), id), "ok",
                    Cardinality(Target(role, table, "SELECT", RowsOf(table), id)),
                    FALSE, 0)
  /\ UNCHANGED <<catalog_users, catalog_parts, cart, verification_codes>>
  /\ UNCHANGED bootVars

\* The error a catalog_users row raises against the table's other rows.
UserOutcome(role, cmd, new, others) ==
  IF ~CheckPermitted(role, "catalog_users", cmd) THEN "rls"
  ELSE IF ~UserNotNull(new) THEN "not_null"
  ELSE IF ~StatusCheck(new.status) THEN "check"
  ELSE IF ~PrimaryKeyFree(new, others) \/ ~EmailUnique(new, others) THEN "unique"
  ELSE "ok"

\* INSERT INTO catalog_users, with or without the status column.
InsertUser(role, row, statusGiven) ==
  LET new == [row EXCEPT !.status = ColumnValue(statusGiven, row.status, StatusDefault)]
      outcome == UserOutcome(role, "INSERT", new, catalog_users)
  IN /\ catalog_users' = IF outcome = "ok" THEN catalog_users \cup {new}
                         ELSE catalog_users
     /\ last' = Wrote(role, "INSERT", "catalog_users", row.id,
                      Exists(catalog_users, row.id), outcome, ~statusGiven)
     /\ UNCHANGED <<catalog_parts, cart, verification_codes>>
     /\ UNCHANGED bootVars

\* UPDATE catalog_users SET id, email, status = new WHERE id = id.
UpdateUser(role, id, new) ==
  LET target == Target(role, "catalog_users", "UPDATE", catalog_users, id)
      others == catalog_users \ target
      checked == UserOutcome(role, "UPDATE", new, others)
      outcome == IF target = {} THEN "none"
                 ELSE IF checked # "ok" THEN checked
                 ELSE IF ~NoReferrers(id, new.id, {c.user_id : c \in cart})
                      THEN "foreign_key"
                 ELSE "ok"
  IN /\ catalog_users' = IF outcome = "ok" THEN others \cup {new} ELSE catalog_users
     /\ last' = Wrote(role, "UPDATE", "catalog_users", id,
                      Exists(catalog_users, id), outcome, FALSE)
     /\ UNCHANGED <<catalog_parts, cart, verification_codes>>
     /\ UNCHANGED bootVars

\* DELETE FROM catalog_users WHERE id = id, and the cascade into cart.
DeleteUser(role, id) ==
  LET target == Target(role, "catalog_users", "DELETE", catalog_users, id)
      outcome == IF target = {} THEN "none" ELSE "ok"
  IN /\ catalog_users' = catalog_users \ target
     /\ cart' = IF outcome = "ok" THEN CascadeDelete(cart, "user_id", id) ELSE cart
     /\ last' = Deleted(role, "catalog_users", id, Exists(catalog_users, id),
                        outcome, cart, cart')
     /\ UNCHANGED <<catalog_parts, verification_codes>>
     /\ UNCHANGED bootVars

\* The error a catalog_parts row raises against the table's other rows.
PartOutcome(role, cmd, new, others) ==
  IF ~CheckPermitted(role, "catalog_parts", cmd) THEN "rls"
  ELSE IF ~PartNotNull(new) THEN "not_null"
  ELSE IF ~PrimaryKeyFree(new, others) THEN "unique"
  ELSE "ok"

\* INSERT INTO catalog_parts.
InsertPart(role, row) ==
  LET outcome == PartOutcome(role, "INSERT", row, catalog_parts)
  IN /\ catalog_parts' = IF outcome = "ok" THEN catalog_parts \cup {row}
                         ELSE catalog_parts
     /\ last' = Wrote(role, "INSERT", "catalog_parts", row.id,
                      Exists(catalog_parts, row.id), outcome, FALSE)
     /\ UNCHANGED <<catalog_users, cart, verification_codes>>
     /\ UNCHANGED bootVars

\* UPDATE catalog_parts SET id, price = new WHERE id = id.
UpdatePart(role, id, new) ==
  LET target == Target(role, "catalog_parts", "UPDATE", catalog_parts, id)
      others == catalog_parts \ target
      checked == PartOutcome(role, "UPDATE", new, others)
      outcome == IF target = {} THEN "none"
                 ELSE IF checked # "ok" THEN checked
                 ELSE IF ~NoReferrers(id, new.id, {c.part_id : c \in cart})
                      THEN "foreign_key"
                 ELSE "ok"
  IN /\ catalog_parts' = IF outcome = "ok" THEN others \cup {new} ELSE catalog_parts
     /\ last' = Wrote(role, "UPDATE", "catalog_parts", id,
                      Exists(catalog_parts, id), outcome, FALSE)
     /\ UNCHANGED <<catalog_users, cart, verification_codes>>
     /\ UNCHANGED bootVars

\* DELETE FROM catalog_parts WHERE id = id, and the cascade into cart.
DeletePart(role, id) ==
  LET target == Target(role, "catalog_parts", "DELETE", catalog_parts, id)
      outcome == IF target = {} THEN "none" ELSE "ok"
  IN /\ catalog_parts' = catalog_parts \ target
     /\ cart' = IF outcome = "ok" THEN CascadeDelete(cart, "part_id", id) ELSE cart
     /\ last' = Deleted(role, "catalog_parts", id, Exists(catalog_parts, id),
                        outcome, cart, cart')
     /\ UNCHANGED <<catalog_users, verification_codes>>
     /\ UNCHANGED bootVars

\* The error a cart row raises against the table's other rows and the two
\* tables it refers to.
CartOutcome(role, cmd, new, others) ==
  IF ~CheckPermitted(role, "cart", cmd) THEN "rls"
  ELSE IF ~QuantityCheck(new.quantity) THEN "check"
  ELSE IF ~PrimaryKeyFree(new, others) \/ ~CartPairUnique(new, others) THEN "unique"
  ELSE IF ~ReferenceHolds(new.user_id, catalog_users)
          \/ ~ReferenceHolds(new.part_id, catalog_parts) THEN "foreign_key"
  ELSE "ok"

\* INSERT INTO cart, with or without the quantity column.
InsertCart(role, row, quantityGiven) ==
  LET new == [row EXCEPT
                !.quantity = ColumnValue(quantityGiven, row.quantity, QuantityDefault)]
      outcome == CartOutcome(role, "INSERT", new, cart)
  IN /\ cart' = IF outcome = "ok" THEN cart \cup {new} ELSE cart
     /\ last' = Wrote(role, "INSERT", "cart", row.id, Exists(cart, row.id),
                      outcome, ~quantityGiven)
     /\ UNCHANGED <<catalog_users, catalog_parts, verification_codes>>
     /\ UNCHANGED bootVars

\* UPDATE cart SET user_id, part_id, quantity = new WHERE id = id.
UpdateCart(role, id, new) ==
  LET target == Target(role, "cart", "UPDATE", cart, id)
      others == cart \ target
      outcome == IF target = {} THEN "none"
                 ELSE CartOutcome(role, "UPDATE", new, others)
  IN /\ cart' = IF outcome = "ok" THEN others \cup {new} ELSE cart
     /\ last' = Wrote(role, "UPDATE", "cart", id, Exists(cart, id), outcome, FALSE)
     /\ UNCHANGED <<catalog_users, catalog_parts, verification_codes>>
     /\ UNCHANGED bootVars

\* DELETE FROM cart WHERE id = id.
DeleteCart(role, id) ==
  LET target == Target(role, "cart", "DELETE", cart, id)
      outcome == IF target = {} THEN "none" ELSE "ok"
  IN /\ cart' = cart \ target
     /\ last' = Wrote(role, "DELETE", "cart", id, Exists(cart, id), outcome, FALSE)
     /\ UNCHANGED <<catalog_users, catalog_parts, verification_codes>>
     /\ UNCHANGED bootVars

\* The error a verification_codes row raises against the table's other rows.
CodeOutcome(role, cmd, new, others) ==
  IF ~CheckPermitted(role, "verification_codes", cmd) THEN "rls"
  ELSE IF ~PrimaryKeyFree(new, others) THEN "unique"
  ELSE "ok"

\* INSERT INTO verification_codes, with or without the used column.
InsertCode(role, row, usedGiven) ==
  LET new == [row EXCEPT !.used = ColumnValue(usedGiven, row.used, UsedDefault)]
      outcome == CodeOutcome(role, "INSERT", new, verification_codes)
  IN /\ verification_codes' = IF outcome = "ok" THEN verification_codes \cup {new}
                              ELSE verification_codes
     /\ last' = Wrote(role, "INSERT", "verification_codes", row.id,
                      Exists(verification_codes, row.id), outcome, ~usedGiven)
     /\ UNCHANGED <<catalog_users, catalog_parts, cart>>
     /\ UNCHANGED bootVars

\* UPDATE verification_codes SET id, used = new WHERE id = id.
UpdateCode(role, id, new) ==
  LET target == Target(role, "verification_codes", "UPDATE", verification_codes, id)
      others == verification_codes \ target
      outcome == IF target = {} THEN "none"
                 ELSE CodeOutcome(role, "UPDATE", new, others)
  IN /\ verification_codes' = IF outcome = "ok" THEN others \cup {new}
                              ELSE verification_codes
     /\ last' = Wrote(role, "UPDATE", "verification_codes", id,
                      Exists(verification_codes, id), outcome, FALSE)
     /\ UNCHANGED <<catalog_users, catalog_parts, cart>>
     /\ UNCHANGED bootVars

\* DELETE FROM verification_codes WHERE id = id.
DeleteCode(role, id) ==
  LET target == Target(role, "verification_codes", "DELETE", verification_codes, id)
      outcome == IF target = {} THEN "none" ELSE "ok"
  IN /\ verification_codes' = verification_codes \ target
     /\ last' = Wrote(role, "DELETE", "verification_codes", id,
                      Exists(verification_codes, id), outcome, FALSE)
     /\ UNCHANGED <<catalog_users, catalog_parts, cart>>
     /\ UNCHANGED bootVars

(***************************************************************************)
(* Specifications                                                          *)
(***************************************************************************)

\* The initializer, from every configuration, beside a database nobody uses.
InitBoot ==
  /\ \E envUrl \in UrlValues, envKey \in KeyValues,
        cfgUrl \in UrlValues, cfgKey \in KeyValues :
       BootStart(envUrl, envKey, cfgUrl, cfgKey)
  /\ DbStart

NextBoot ==
  \/ ResolveUrl
  \/ ResolveAnonKey
  \/ Guard
  \/ LogMissing
  \/ ThrowMissing
  \/ CreateClient

SpecBoot == InitBoot /\ [][NextBoot]_vars

\* The database after the migration, beside an initializer that has not run.
InitDb ==
  /\ BootStart("https://a.supabase.co", "anon-key-a", Undefined, Undefined)
  /\ DbStart

\* An INSERT leaves a column out (given = FALSE) or gives it a value.
Columns(given, v) == given \/ IsNull(v)

\* The ids of a set of rows.
Ids(rows) == {r.id : r \in rows}

\* The statements on catalog_users, run as `roles` with rows of `rows`.
UserStatements(roles, rows) ==
  \/ \E role \in roles, id \in Ids(rows) : SelectRow(role, "catalog_users", id)
  \/ \E role \in roles, row \in rows, given \in BOOLEAN :
       Columns(given, row.status) /\ InsertUser(role, row, given)
  \/ \E role \in roles, id \in Ids(rows), new \in rows : UpdateUser(role, id, new)
  \/ \E role \in roles, id \in Ids(rows) : DeleteUser(role, id)

\* The statements on catalog_parts.
PartStatements(roles, rows) ==
  \/ \E role \in roles, id \in Ids(rows) : SelectRow(role, "catalog_parts", id)
  \/ \E role \in roles, row \in rows : InsertPart(role, row)
  \/ \E role \in roles, id \in Ids(rows), new \in rows : UpdatePart(role, id, new)
  \/ \E role \in roles, id \in Ids(rows) : DeletePart(role, id)

\* The statements on cart.
CartStatements(roles, rows) ==
  \/ \E role \in roles, id \in Ids(rows) : SelectRow(role, "cart", id)
  \/ \E role \in roles, row \in rows, given \in BOOLEAN :
       Columns(given, row.quantity) /\ InsertCart(role, row, given)
  \/ \E role \in roles, new \in rows : UpdateCart(role, new.id, new)
  \/ \E role \in roles, id \in Ids(rows) : DeleteCart(role, id)

\* The statements on verification_codes.
CodeStatements(roles, rows) ==
  \/ \E role \in roles, id \in Ids(rows) : SelectRow(role, "verification_codes", id)
  \/ \E role \in roles, row \in rows, given \in BOOLEAN :
       Columns(given, row.used) /\ InsertCode(role, row, given)
  \/ \E role \in roles, id \in Ids(rows), new \in rows : UpdateCode(role, id, new)
  \/ \E role \in roles, id \in Ids(rows) : DeleteCode(role, id)

\* Well-formed rows, one per id, for the runs that are not about the rows'
\* own constraints.
SeedUsers ==
  { [id |-> "u1", email |-> <<"a@example.com">>, status |-> <<"approved">>],
    [id |-> "u2", email |-> <<"b@example.com">>, status |-> <<"approved">>] }
SeedParts == {r \in PartRows : r.price = <<5>>}

\* SpecUsers: every role sends every catalog_users statement, with every row
\* of UserRows; the other tables stay empty.
NextUsers == UserStatements(Roles, UserRows)

SpecUsers == InitDb /\ [][NextUsers]_vars

\* SpecCart: the owner, whom no policy restrains, fills and empties
\* catalog_users and catalog_parts with well-formed rows, and every cart
\* statement is sent with every row of CartRows.
NextCart ==
  \/ UserStatements({"owner"}, SeedUsers)
  \/ PartStatements({"owner"}, SeedParts)
  \/ CartStatements({"owner"}, CartRows)

SpecCart == InitDb /\ [][NextCart]_vars

\* SpecPolicies: every role sends every statement on every table, about one
\* well-formed row per table.
PolicyUsers == {r \in SeedUsers : r.id = "u1"}
PolicyParts == {r \in SeedParts : r.id = "p1"}
PolicyCart ==
  {[id |-> "c1", user_id |-> u, part_id |-> <<"p1">>, quantity |-> <<1>>] :
     u \in {NULL, <<"u1">>}}
PolicyCodes == {[id |-> "v1", used |-> u] : u \in {<<FALSE>>, <<TRUE>>}}

NextPolicies ==
  \/ UserStatements(Roles, PolicyUsers)
  \/ PartStatements(Roles, PolicyParts)
  \/ CartStatements(Roles, PolicyCart)
  \/ CodeStatements(Roles, PolicyCodes)

SpecPolicies == InitDb /\ [][NextPolicies]_vars

(***************************************************************************)
(* Properties of the initializer (SpecBoot)                                *)
(***************************************************************************)

\* Both constants of lines 4 and 5 have their values.
Resolved == pc \notin {"L4", "L5"}

\* The module has finished evaluating, by the throw or by the export.
Ended == pc \in {"failed", "done"}

\* C1: when the resolved URL or the resolved key is empty, the initializer
\* takes the failing path and no other: createClient is never called, no
\* handle is produced, and it ends with the Error 'Missing Supabase
\* environment variables. Please restart the dev server.'
C1_MissingConfigFaults ==
  (Resolved /\ (~Truthy(supabaseUrl) \/ ~Truthy(supabaseAnonKey))) =>
    /\ pc \in {"L7", "L8", "L12", "failed"}
    /\ createClientCalls = 0
    /\ supabase = NoHandle
    /\ (pc = "failed" =>
          thrown = "Missing Supabase environment variables. Please restart the dev server.")

\* C1's case: the URL is there and the key alone is missing, and the
\* initializer has thrown.
C1_Witness ==
  /\ pc = "failed"
  /\ Truthy(supabaseUrl)
  /\ ~Truthy(supabaseAnonKey)
  /\ thrown = MissingEnvMessage
  /\ supabase = NoHandle

\* C2: when both resolved values are non-empty, nothing is thrown, nothing
\* is logged as an error, and the initializer ends having called
\* createClient exactly once, with a handle for that URL and key whose
\* autoRefreshToken, persistSession and detectSessionInUrl are all disabled.
C2_PresentConfigSucceeds ==
  (Resolved /\ Truthy(supabaseUrl) /\ Truthy(supabaseAnonKey)) =>
    /\ pc \in {"L7", "L15", "done"}
    /\ thrown = NotThrown
    /\ consoleErrors = <<>>
    /\ (pc # "done" => supabase = NoHandle /\ createClientCalls = 0)
    /\ (pc = "done" =>
          /\ createClientCalls = 1
          /\ supabase # NoHandle
          /\ supabase.url = supabaseUrl
          /\ supabase.key = supabaseAnonKey
          /\ supabase.auth.autoRefreshToken = FALSE
          /\ supabase.auth.persistSession = FALSE
          /\ supabase.auth.detectSessionInUrl = FALSE)

\* C2's case: the handle has been created.
C2_Witness ==
  /\ pc = "done"
  /\ Truthy(supabaseUrl)
  /\ Truthy(supabaseAnonKey)
  /\ supabase.kind = "client"

\* What the log holds once something is logged: one entry, which says of the
\* key only 'exists' or 'missing' and which is the entry any other non-empty
\* key would have produced.
LogHidesKey ==
  consoleErrors # <<>> =>
    /\ Len(consoleErrors) = 1
    /\ consoleErrors[1].VITE_SUPABASE_ANON_KEY \in {"exists", "missing"}
    /\ consoleErrors[1].VITE_SUPABASE_ANON_KEY = "exists" <=> Truthy(supabaseAnonKey)
    /\ \A other \in KeyValues :
         (Truthy(supabaseAnonKey) /\ Truthy(other)) =>
           consoleErrors[1] = LogEntry(supabaseUrl, other)

\* The log is there when the Error is.
LoggedOnceIfThrown ==
  /\ (thrown # NotThrown \/ pc = "L12") => Len(consoleErrors) = 1
  /\ pc \in {"L4", "L5", "L7", "L8", "L15", "done"} => consoleErrors = <<>>

\* C9: on the failing path console.error is called exactly once, and the
\* step that throws finds the log already written and adds nothing to it;
\* the entry shows the key only as 'exists' or 'missing', so it is the same
\* for any two non-empty keys.
C9_LogBeforeThrowHidesKey ==
  /\ [](LogHidesKey /\ LoggedOnceIfThrown)
  /\ [][thrown' # thrown =>
          /\ Len(consoleErrors) = 1
          /\ consoleErrors' = consoleErrors
          /\ thrown = NotThrown]_vars

\* C9's case: the key is there, the URL is missing, and the fault was raised
\* after the log.
C9_Witness ==
  /\ pc = "failed"
  /\ Truthy(supabaseAnonKey)
  /\ Len(consoleErrors) = 1
  /\ consoleErrors[1].VITE_SUPABASE_ANON_KEY = "exists"

\* Neither the environment nor the fallback gives a value.
BothEmpty(env, fallback) == ~Truthy(env) /\ ~Truthy(fallback)

\* C10: each value is the environment's when that is non-empty and the
\* fallback constant otherwise, the URL and the key each on its own; and the
\* initializer ends with the fault exactly when, for the URL or for the
\* key, the environment value and the fallback are both empty.
C10_FallbackResolution ==
  /\ pc # "L4" =>
       supabaseUrl = IF VITE_SUPABASE_URL \notin {Undefined, ""}
                     THEN VITE_SUPABASE_URL ELSE SUPABASE_URL
  /\ Resolved =>
       supabaseAnonKey = IF VITE_SUPABASE_ANON_KEY \notin {Undefined, ""}
                         THEN VITE_SUPABASE_ANON_KEY ELSE SUPABASE_ANON_KEY
  /\ Ended =>
       /\ (pc = "failed") <=> (thrown = MissingEnvMessage)
       /\ (thrown = MissingEnvMessage) <=>
            \/ BothEmpty(VITE_SUPABASE_URL, SUPABASE_URL)
            \/ BothEmpty(VITE_SUPABASE_ANON_KEY, SUPABASE_ANON_KEY)
  /\ (~Ended) => thrown = NotThrown

\* C10's case: the environment gives neither value, the fallback constants
\* give both, and the client is built from the fallbacks.
C10_Witness ==
  /\ pc = "done"
  /\ VITE_SUPABASE_URL = Undefined
  /\ VITE_SUPABASE_ANON_KEY = ""
  /\ supabase.url = SUPABASE_URL
  /\ supabase.key = SUPABASE_ANON_KEY

(***************************************************************************)
(* Properties of the schema (SpecPolicies, SpecCart, SpecUsers)            *)
(***************************************************************************)

\* The last statement was sent by anon or authenticated, on the table.
CallerSent(cmd, table) ==
  last.role \in Callers /\ last.cmd = cmd /\ last.table = table

\* Row security did not stand in the last statement's way: it raised no
\* policy error, and a row that was there to select, update or delete was
\* not hidden from the statement.
NotBarred ==
  /\ last.outcome # "rls"
  /\ (last.cmd \in {"UPDATE", "DELETE"} /\ last.found) => last.outcome # "none"
  /\ (last.cmd = "SELECT" /\ last.found) => last.rows = 1

\* Row security hid the row from the last statement: the row was there,
\* nothing was returned or changed, and the row is there still.
Barred ==
  last.found =>
    /\ last.outcome = "none"
    /\ last.rows = 0
    /\ \E r \in RowsOf(last.table) : r.id = last.id

C4_CartReferencesExist ==
  /\ \A c \in cart :
       /\ ~IsNull(c.user_id) => \E u \in catalog_users : u.id = c.user_id[1]
       /\ ~IsNull(c.part_id) => \E p \in catalog_parts : p.id = c.part_id[1]
  /\ (last.cmd = "DELETE" /\ last.table = "catalog_users" /\ last.outcome = "ok") =>
       \A c \in cart : c.user_id # <<last.id>>
  /\ (last.cmd = "DELETE" /\ last.table = "catalog_parts" /\ last.outcome = "ok") =>
       \A c \in cart : c.part_id # <<last.id>>

\* C4's case: one of two users has been deleted, and the cascade has
\* removed the two cart rows that referred to that user.
C4_Witness ==
  /\ last.cmd = "DELETE"
  /\ last.table = "catalog_users"
  /\ last.outcome = "ok"
  /\ last.cascaded = 2
  /\ catalog_users # {}

\* C5, as the specification states it: no two distinct cart rows share the
\* same (user_id, part_id) pair.
C5_PairUniqueAsStated ==
  \A a \in cart, b \in cart :
    (a.user_id = b.user_id /\ a.part_id = b.part_id) => a = b

\* C5, amended: no two distinct cart rows that both have a user_id and a
\* part_id share the same (user_id, part_id) pair.
C5_PairUniqueWhenNotNull ==
  \A a \in cart, b \in cart :
    (/\ ~IsNull(a.user_id) /\ ~IsNull(a.part_id)
     /\ a.user_id = b.user_id /\ a.part_id = b.part_id) => a = b

\* C5's case: a second cart row for a (user, part) pair that is in the cart
\* has been refused as a duplicate, under an id of its own.
C5_Witness ==
  /\ last.cmd = "INSERT"
  /\ last.table = "cart"
  /\ last.outcome = "unique"
  /\ ~last.found
  /\ \E c \in cart : ~IsNull(c.user_id) /\ ~IsNull(c.part_id)

\* C6, as the specification states it: every cart row has quantity > 0.
C6_QuantityPositiveAsStated ==
  \A c \in cart : ~IsNull(c.quantity) /\ c.quantity[1] > 0

\* A cart row inserted without the quantity column has quantity 1.
QuantityDefaulted ==
  (last.cmd = "INSERT" /\ last.table = "cart" /\ last.outcome = "ok"
     /\ last.defaulted) =>
    \E c \in cart : c.id = last.id /\ c.quantity = <<1>>

\* C6, amended: every cart row has a quantity > 0 or no quantity at all
\* (NULL), whatever was inserted and updated; a row inserted without the
\* quantity column has quantity 1.
C6_QuantityPositiveOrNull ==
  /\ \A c \in cart : IsNull(c.quantity) \/ c.quantity[1] > 0
  /\ QuantityDefaulted

\* C6's case: an UPDATE of a cart row to a quantity that is not positive
\* has been refused by the CHECK, beside a row with a quantity.
C6_Witness ==
  /\ last.cmd = "UPDATE"
  /\ last.table = "cart"
  /\ last.outcome = "check"
  /\ \E c \in cart : c.id = last.id /\ ~IsNull(c.quantity)

\* C7: every catalog_users row has status pending, approved or rejected,
\* whatever was inserted and updated, and a row inserted without the status
\* column has status 'pending'.
C7_StatusInEnum ==
  /\ \A u \in catalog_users :
       u.status \in {<<"pending">>, <<"approved">>, <<"rejected">>}
  /\ (last.cmd = "INSERT" /\ last.table = "catalog_users" /\ last.outcome = "ok"
        /\ last.defaulted) =>
       \E u \in catalog_users : u.id = last.id /\ u.status = <<"pending">>

\* C7's case: an UPDATE of a user row has been refused by the CHECK on
\* status, and the row keeps a status of the enumeration.
C7_Witness ==
  /\ last.cmd = "UPDATE"
  /\ last.table = "catalog_users"
  /\ last.outcome = "check"
  /\ \E u \in catalog_users : u.id = last.id /\ u.status = <<"rejected">>

\* C8: no two distinct catalog_users rows have the same email, and a
\* statement refused for a duplicate leaves catalog_users as it was.
C8_EmailUnique ==
  /\ [](\A a \in catalog_users, b \in catalog_users : a.email = b.email => a = b)
  /\ [][last'.outcome = "unique" => catalog_users' = catalog_users]_vars

\* C8's case: an INSERT under a new id with the email of a row that exists
\* has been refused as a duplicate.
C8_Witness ==
  /\ last.cmd = "INSERT"
  /\ last.table = "catalog_users"
  /\ last.outcome = "unique"
  /\ ~last.found
  /\ Cardinality(catalog_users) = 1

====
